---- MODULE Spec2Model ----
(***************************************************************************)
(* Circulation engine of the library management system (src/LMS.jsx):      *)
(* the fine calculator, and the Borrow / Return handlers of the            *)
(* transaction desk running in several browser sessions against one        *)
(* shared document store.  Every session works from the snapshots the      *)
(* store's listeners last delivered to it; the store runs each             *)
(* runTransaction body optimistically (read, then commit if the documents  *)
(* read are unchanged, else run the body again).                           *)
(*                                                                         *)
(* Instants are milliseconds, as Date.getTime() gives them, counted from   *)
(* 2024-01-01 00:00 so that they fit 32-bit integers.  Money is in         *)
(* cents: 0.50 is 50.                                                      *)
(***************************************************************************)
EXTENDS Integers, Sequences, FiniteSets, TLC

\* ------------------------------------------------------------ constants

FINE_RATE_PER_DAY == 50
BORROW_DAYS == 7
MsPerDay == 86400000
MsPerMinute == 60 * 1000
\* runTransaction is called without options: the store's client library
\* runs the update function at most this many times.
MaxAttempts == 5

Null == -1

\* ------------------------------------------------------------ bounds

MaxCopies == 2      \* copies a book has: 1..MaxCopies
MaxTxns == 2        \* transaction documents in the store
MaxOps == 2         \* handler invocations (Borrow or Return) in a run
MaxTicks == 1       \* times the clock advances in a run
MaxLog == 3         \* transactions in a collection that is reported on
MaxLeaks == 2       \* dropped listeners are counted up to this number

Clients == {"c1", "c2"}
Books == {"b1"}
Users == {"u1"}
\* the clock advances by a loan period and a day
TickSteps == {(BORROW_DAYS + 1) * MsPerDay}
Horizon == 2 * (BORROW_DAYS + 1) * MsPerDay

\* ------------------------------------------------------------ state

VARIABLES
    now,            \* the store's clock (serverTimestamp())
    ticks,          \* how often the clock has advanced
    books,          \* store: book id -> document (NoBook once deleted)
    users,          \* store: user id -> document
    transactions,   \* store: sequence of transaction documents, id = index
    localBooks,     \* per session: App's `books` state (last snapshot)
    localTxns,      \* per session: TransactionManagement's `transactions`
    pc,             \* per session: where its handler stands
    op,             \* per session: the handler's locals
    result,         \* per session: its last handler and how it ended
    budget,         \* handler invocations still allowed in this run
    fDue, fRet, fOut, fpc,  \* the fine calculator called on its own
    view,           \* per session: App's `view` state
    localUsers,     \* per session: App's `users` state (last snapshot)
    appTxns,        \* per session: App's `transactions` state (last snapshot)
    pass,           \* per session: the effect of Reports and its
                    \* updateDefaulterStatus
    form,           \* per session: the modal form of BookManagement
    report,         \* per session: what Reports last rendered
    leaks,          \* per session: live listeners whose unsubscribe
                    \* function was dropped
    dashboard       \* per session: what Dashboard last rendered

vars == <<now, ticks, books, users, transactions, localBooks, localTxns,
          pc, op, result, budget, fDue, fRet, fOut, fpc,
          view, localUsers, appTxns, pass, form, report, leaks, dashboard>>

storeVars == <<books, users, transactions>>
fineVars == <<fDue, fRet, fOut, fpc>>
uiVars == <<view, localUsers, appTxns, pass, form, report, leaks, dashboard>>

\* ------------------------------------------------------------ fine calculator

\* Math.ceil(timeDiff / (1000 * 60 * 60 * 24)), timeDiff > 0
CeilDays(timeDiff) == (timeDiff + MsPerDay - 1) \div MsPerDay

FloorDays(timeDiff) == timeDiff \div MsPerDay

daysLate(timeDiff) == CeilDays(timeDiff)

\* calculateFine as it would be if it compared calendar days
calculateFineByDay(dueDate, returnDate) ==
    IF \/ dueDate = Null
       \/ returnDate = Null
       \/ returnDate \div MsPerDay <= dueDate \div MsPerDay
    THEN 0
    ELSE daysLate(returnDate - dueDate) * FINE_RATE_PER_DAY

\* calculateFine(dueDate, returnDate); the result in cents.
\* daysLate * 0.50 is a multiple of one half, which toFixed(2) and
\* parseFloat return unchanged.
calculateFine(dueDate, returnDate) ==
    IF dueDate = Null \/ returnDate = Null \/ returnDate <= dueDate
    THEN 0
    ELSE daysLate(returnDate - dueDate) * FINE_RATE_PER_DAY

\* ------------------------------------------------------------ helpers

Open(t) == t.returnDate = Null

\* `new Date()` in a session; the sessions' clocks are taken to agree
\* with the store's
ClientNow(c) == now

NoOp == [kind |-> "none", bookId |-> "b1", userId |-> "u1", txnId |-> 0,
         dueDate |-> Null, fine |-> 0, attempts |-> 0, readAvail |-> 0,
         fresh |-> FALSE]

\* what a session's last handler was and how it ended
Outcome(kind, b, how) == [kind |-> kind, bookId |-> b, outcome |-> how]

NoResult == Outcome("none", "b1", "none")

Failures == {"Unavailable", "AlreadyReturned", "Error", "Conflict"}

\* Borrow handlers that passed the local check and have not ended
BorrowsInFlight == Cardinality({c \in Clients : op[c].kind = "borrow"})

OpenCount(b) ==
    Cardinality({i \in DOMAIN transactions :
                    transactions[i].bookId = b /\ Open(transactions[i])})

\* A commit of session c wrote book b: every other transaction that has
\* read b is now stale and the store will refuse its commit.
Invalidate(c, b) ==
    [d \in Clients |->
        IF d = c THEN NoOp
        ELSE IF pc[d] = "commit" /\ op[d].bookId = b
             THEN [op[d] EXCEPT !.fresh = FALSE]
             ELSE op[d]]

\* ------------------------------------------------------------ initial state

\* a book document with k of its n copies on loan
BookDoc(n, k) ==
    [exists |-> TRUE, totalCopies |-> n, availableCopies |-> n - k,
     author |-> "a1", publisher |-> "p1", category |-> "Fiction"]

\* a deleted book is a document that does not exist
NoBook ==
    [exists |-> FALSE, totalCopies |-> 0, availableCopies |-> 0,
     author |-> "", publisher |-> "", category |-> ""]

\* a user document as handleCreateUser writes it
UserDoc(role) == [role |-> role, isDefaulter |-> FALSE]

\* no effect of Reports is due and no updateDefaulterStatus is running
NoPass ==
    [due |-> FALSE, todo |-> << >>, users |-> << >>, log |-> << >>,
     clean |-> TRUE, wrote |-> {}, ended |-> FALSE]

\* the modal of BookManagement closed, formData as resetForm leaves it
NoForm ==
    [open |-> FALSE, edit |-> FALSE, bookId |-> "",
     totalCopies |-> 1, availableCopies |-> 1,
     author |-> "", publisher |-> "", category |-> "Fiction"]

\* Reports has rendered nothing
NoReport ==
    [status |-> "none", author |-> << >>, publisher |-> << >>,
     category |-> << >>, monthly |-> << >>, defaulters |-> << >>]

\* A session that shows the transaction desk has received the first
\* snapshot of its listener, and the callback has called loadTransactions()
\* once.
DroppedAtMount(v) == IF v = "Transactions" THEN 1 ELSE 0

\* Dashboard has rendered nothing
NoDashboard == [status |-> "none", totalFines |-> 0, borrowedBooks |-> 0]

\* every session shows the transaction desk and holds the snapshots of
\* the store
UiIdle ==
    /\ view = [c \in Clients |-> "Transactions"]
    /\ localUsers = [c \in Clients |-> users]
    /\ appTxns = [c \in Clients |-> transactions]
    /\ leaks = [c \in Clients |-> DroppedAtMount(view[c])]
    /\ dashboard = [c \in Clients |-> NoDashboard]
    /\ pass = [c \in Clients |-> NoPass]
    /\ form = [c \in Clients |-> NoForm]
    /\ report = [c \in Clients |-> NoReport]

\* an open transaction as handleBorrow leaves it in the store
OpenTransaction(b, u, borrowed, due) ==
    [bookId |-> b, userId |-> u, borrowDate |-> borrowed, dueDate |-> due,
     returnDate |-> Null, fineAmount |-> 0]

\* The store at the start of a run: every book has n copies and no or one
\* of them is on loan to u1 since instant 0; each session has received
\* the snapshots of that store.
MachineInit ==
    /\ now = 0
    /\ ticks = 0
    /\ \E n \in 1..MaxCopies, k \in 0..1 :
         /\ books = [b \in Books |-> BookDoc(n, k)]
         /\ transactions =
              IF k = 0 THEN << >>
              ELSE << OpenTransaction("b1", "u1", 0, BORROW_DAYS * MsPerDay) >>
    /\ users = [u \in Users |-> UserDoc("Student")]
    /\ localBooks = [c \in Clients |-> books]
    /\ localTxns = [c \in Clients |-> transactions]
    /\ pc = [c \in Clients |-> "idle"]
    /\ op = [c \in Clients |-> NoOp]
    /\ result = [c \in Clients |-> NoResult]
    /\ UiIdle

FineIdle == fDue = Null /\ fRet = Null /\ fOut = 0 /\ fpc = "off"

Init == MachineInit /\ budget = MaxOps /\ FineIdle

\* ------------------------------------------------------------ environment

\* time passes
Tick(d) ==
    /\ ticks < MaxTicks
    /\ now + d <= Horizon
    /\ now' = now + d
    /\ ticks' = ticks + 1
    /\ UNCHANGED <<storeVars, localBooks, localTxns, pc, op, result,
                   budget, fineVars, uiVars>>

\* A loader of App (loadBooks, loadUsers, loadTransactions) is called and
\* the unsubscribe function it returns is dropped: the listener it opened
\* stays live for good.  The count stands still at MaxLeaks.
Leak(c) == [leaks EXCEPT ![c] = IF @ < MaxLeaks THEN @ + 1 ELSE @]

\* the books listener of a session delivers the current collection
loadBooks(c) ==
    /\ localBooks[c] # books
    /\ localBooks' = [localBooks EXCEPT ![c] = books]
    /\ UNCHANGED <<now, ticks, storeVars, localTxns, pc, op, result,
                   budget, fineVars, uiVars>>

\* the transactions listener of TransactionManagement delivers the current
\* collection; it lives while the transaction desk is shown.  Its callback
\* ends with loadTransactions(), which opens one more listener.
loadLocalTransactions(c) ==
    /\ view[c] = "Transactions"
    /\ localTxns[c] # transactions
    /\ localTxns' = [localTxns EXCEPT ![c] = transactions]
    /\ leaks' = Leak(c)
    /\ UNCHANGED <<now, ticks, storeVars, localBooks, pc, op, result,
                   budget, fineVars, view, localUsers, appTxns, pass, form,
                   report, dashboard>>

\* ------------------------------------------------------------ Borrow

\* the availability check of handleBorrow, on the session's own snapshot
BorrowRefused(selectedBook) ==
    ~selectedBook.exists \/ selectedBook.availableCopies < 1

\* handleBorrow up to the runTransaction call
handleBorrow(c, u, b) ==
    /\ view[c] = "Transactions"
    /\ pc[c] = "idle"
    /\ budget > 0
    /\ Len(transactions) + BorrowsInFlight < MaxTxns
    /\ budget' = budget - 1
    /\ IF BorrowRefused(localBooks[c][b])
       THEN /\ result' = [result EXCEPT ![c] =
                                Outcome("borrow", b, "Unavailable")]
            /\ UNCHANGED <<pc, op>>
       ELSE /\ op' = [op EXCEPT ![c] =
                        [NoOp EXCEPT !.kind = "borrow", !.bookId = b,
                                     !.userId = u,
                                     !.dueDate = ClientNow(c)
                                                 + BORROW_DAYS * MsPerDay]]
            /\ pc' = [pc EXCEPT ![c] = "run"]
            /\ UNCHANGED result
    /\ UNCHANGED <<now, ticks, storeVars, localBooks, localTxns, fineVars, uiVars>>

\* ------------------------------------------------------------ Return

\* handleReturn up to the runTransaction call; txn is a row of the
\* session's own transaction list
handleReturn(c, id) ==
    /\ view[c] = "Transactions"
    /\ pc[c] = "idle"
    /\ budget > 0
    /\ id \in DOMAIN localTxns[c]
    /\ budget' = budget - 1
    /\ LET txn == localTxns[c][id] IN
       IF txn.returnDate # Null
       THEN /\ result' = [result EXCEPT ![c] =
                                Outcome("return", txn.bookId, "AlreadyReturned")]
            /\ UNCHANGED <<pc, op>>
       ELSE /\ op' = [op EXCEPT ![c] =
                        [NoOp EXCEPT !.kind = "return", !.bookId = txn.bookId,
                                     !.userId = txn.userId, !.txnId = id,
                                     !.dueDate = txn.dueDate,
                                     !.fine = calculateFine(txn.dueDate,
                                                            ClientNow(c))]]
            /\ pc' = [pc EXCEPT ![c] = "run"]
            /\ UNCHANGED result
    /\ UNCHANGED <<now, ticks, storeVars, localBooks, localTxns, fineVars, uiVars>>

\* ------------------------------------------------------------ runTransaction

\* an update function of handleBorrow that leaves the counter alone
BorrowBookUncounted(c) == books[op[c].bookId]

\* the book document as the update function of handleBorrow writes it
BorrowBook(c) ==
    [books[op[c].bookId] EXCEPT !.availableCopies = op[c].readAvail - 1]

\* the book document as the update function of handleReturn writes it
ReturnBook(c) ==
    [books[op[c].bookId] EXCEPT !.availableCopies = op[c].readAvail + 1]

\* the transaction document handleBorrow creates
NewTransaction(c) ==
    OpenTransaction(op[c].bookId, op[c].userId, now, op[c].dueDate)

\* the transaction document as handleReturn updates it
ClosedTransaction(c) ==
    [transactions[op[c].txnId] EXCEPT !.returnDate = now,
                                      !.fineAmount = op[c].fine]

\* the store's collections after the writes of c's update function
WrittenBooks(c) ==
    [books EXCEPT ![op[c].bookId] =
        IF op[c].kind = "borrow" THEN BorrowBook(c) ELSE ReturnBook(c)]

WrittenTransactions(c) ==
    IF op[c].kind = "borrow"
    THEN Append(transactions, NewTransaction(c))
    ELSE [transactions EXCEPT ![op[c].txnId] = ClosedTransaction(c)]

\* TxnGet as it would be if the update function wrote the transaction
\* document before it looked at the book
TxnGetWritesFirst(c) ==
    /\ pc[c] = "run"
    /\ IF ~books[op[c].bookId].exists
       THEN /\ pc' = [pc EXCEPT ![c] = "idle"]
            /\ op' = [op EXCEPT ![c] = NoOp]
            /\ result' = [result EXCEPT ![c] =
                                Outcome(op[c].kind, op[c].bookId, "Error")]
            /\ transactions' = WrittenTransactions(c)
       ELSE /\ pc' = [pc EXCEPT ![c] = "commit"]
            /\ op' = [op EXCEPT ![c].readAvail =
                                    books[op[c].bookId].availableCopies,
                                ![c].fresh = TRUE]
            /\ UNCHANGED <<result, transactions>>
    /\ UNCHANGED <<now, ticks, books, users, localBooks, localTxns,
                   budget, fineVars, uiVars>>

\* The update function runs: t.get(bookRef), then bookDoc.data().availableCopies.
\* For a deleted book data() is undefined and the function throws, which
\* rejects runTransaction; the handler's catch logs the error.
TxnGet(c) ==
    /\ pc[c] = "run"
    /\ IF ~books[op[c].bookId].exists
       THEN /\ pc' = [pc EXCEPT ![c] = "idle"]
            /\ op' = [op EXCEPT ![c] = NoOp]
            /\ result' = [result EXCEPT ![c] =
                                Outcome(op[c].kind, op[c].bookId, "Error")]
       ELSE /\ pc' = [pc EXCEPT ![c] = "commit"]
            /\ op' = [op EXCEPT ![c].readAvail =
                                    books[op[c].bookId].availableCopies,
                                ![c].fresh = TRUE]
            /\ UNCHANGED result
    /\ UNCHANGED <<now, ticks, storeVars, localBooks, localTxns,
                   budget, fineVars, uiVars>>

\* a runTransaction that never gives up
RetryForever(c) == FALSE

\* the attempt that has just been refused was the last one allowed
LastAttempt(c) == op[c].attempts + 1 >= MaxAttempts

\* The commit: the writes of the update function are applied together if
\* the book read is unchanged; otherwise the function runs again, at most
\* MaxAttempts times in all, and then runTransaction rejects.
TxnCommit(c) ==
    /\ pc[c] = "commit"
    /\ IF op[c].fresh
       THEN /\ books' = WrittenBooks(c)
            /\ transactions' = WrittenTransactions(c)
            /\ UNCHANGED users
            /\ pc' = [pc EXCEPT ![c] = "idle"]
            /\ op' = Invalidate(c, op[c].bookId)
            /\ result' = [result EXCEPT ![c] =
                                Outcome(op[c].kind, op[c].bookId, "ok")]
       ELSE /\ UNCHANGED storeVars
            /\ IF LastAttempt(c)
               THEN /\ pc' = [pc EXCEPT ![c] = "idle"]
                    /\ op' = [op EXCEPT ![c] = NoOp]
                    /\ result' = [result EXCEPT ![c] =
                                Outcome(op[c].kind, op[c].bookId, "Conflict")]
               ELSE /\ pc' = [pc EXCEPT ![c] = "run"]
                    /\ op' = [op EXCEPT ![c].attempts = @ + 1]
                    /\ UNCHANGED result
    /\ UNCHANGED <<now, ticks, localBooks, localTxns, budget, fineVars, uiVars>>

\* ------------------------------------------------------------ book deletion

\* Transactions that have read book b and not committed: a write of b by
\* anyone makes them stale.
Stale(b) ==
    [d \in Clients |->
        IF pc[d] = "commit" /\ op[d].bookId = b
        THEN [op[d] EXCEPT !.fresh = FALSE]
        ELSE op[d]]

\* handleDelete on a row of the session's book list, confirmed by the
\* user; it ends with loadBooks(), which opens one more listener
handleDelete(c, b) ==
    /\ localBooks[c][b].exists
    /\ books[b].exists
    /\ books' = [books EXCEPT ![b] = NoBook]
    /\ op' = Stale(b)
    /\ leaks' = Leak(c)
    /\ UNCHANGED <<now, ticks, users, transactions, localBooks, localTxns,
                   pc, result, budget, fineVars, view, localUsers, appTxns,
                   pass, form, report, dashboard>>

\* ------------------------------------------------------------ specification

Next ==
    \/ \E d \in TickSteps : Tick(d)
    \/ \E c \in Clients : loadBooks(c)
    \/ \E c \in Clients : loadLocalTransactions(c)
    \/ \E c \in Clients, u \in Users, b \in Books : handleBorrow(c, u, b)
    \/ \E c \in Clients, id \in 1..MaxTxns : handleReturn(c, id)
    \/ \E c \in Clients : TxnGet(c)
    \/ \E c \in Clients : TxnCommit(c)

Spec == Init /\ [][Next]_vars

\* Borrow and Return while books are being deleted.  No handler's control
\* flow reads the clock (it only decides the dates and the fine that are
\* stored), so the clock stands still here.
NextDelete ==
    \/ \E c \in Clients : loadBooks(c)
    \/ \E c \in Clients : loadLocalTransactions(c)
    \/ \E c \in Clients, u \in Users, b \in Books : handleBorrow(c, u, b)
    \/ \E c \in Clients, id \in 1..MaxTxns : handleReturn(c, id)
    \/ \E c \in Clients : TxnGet(c)
    \/ \E c \in Clients : TxnCommit(c)
    \/ \E c \in Clients, b \in Books : handleDelete(c, b)

SpecDelete == Init /\ [][NextDelete]_vars

\* Contention: one copy, on loan, and enough handler invocations for one
\* transaction to be refused MaxAttempts times; the clock stands still.
NextContention ==
    \/ \E c \in Clients : loadBooks(c)
    \/ \E c \in Clients : loadLocalTransactions(c)
    \/ \E c \in Clients, u \in Users, b \in Books : handleBorrow(c, u, b)
    \/ \E c \in Clients, id \in 1..MaxTxns : handleReturn(c, id)
    \/ \E c \in Clients : TxnGet(c)
    \/ \E c \in Clients : TxnCommit(c)

ContentionInit ==
    /\ MachineInit
    /\ books["b1"].totalCopies = 1
    /\ Len(transactions) = 1
    /\ budget = MaxAttempts + 1
    /\ FineIdle

SpecContention == ContentionInit /\ [][NextContention]_vars

\* some runTransaction was rejected after its last attempt
ConflictSeen == \E c \in Clients : result[c].outcome = "Conflict"

\* Two books on the shelf: b1 as in Init, and b2 with one copy, not on
\* loan; the clock stands still.
Shelf == Books \cup {"b2"}

ShelfInit ==
    /\ now = 0
    /\ ticks = 0
    /\ \E n \in 1..MaxCopies, k \in 0..1 :
         /\ books = [b \in Shelf |-> IF b = "b1" THEN BookDoc(n, k)
                                                 ELSE BookDoc(1, 0)]
         /\ transactions =
              IF k = 0 THEN << >>
              ELSE << OpenTransaction("b1", "u1", 0, BORROW_DAYS * MsPerDay) >>
    /\ users = [u \in Users |-> UserDoc("Student")]
    /\ localBooks = [c \in Clients |-> books]
    /\ localTxns = [c \in Clients |-> transactions]
    /\ pc = [c \in Clients |-> "idle"]
    /\ op = [c \in Clients |-> NoOp]
    /\ result = [c \in Clients |-> NoResult]
    /\ UiIdle
    /\ budget = MaxOps
    /\ FineIdle

NextShelf ==
    \/ \E c \in Clients : loadBooks(c)
    \/ \E c \in Clients : loadLocalTransactions(c)
    \/ \E c \in Clients, u \in Users, b \in Shelf : handleBorrow(c, u, b)
    \/ \E c \in Clients, id \in 1..MaxTxns : handleReturn(c, id)
    \/ \E c \in Clients : TxnGet(c)
    \/ \E c \in Clients : TxnCommit(c)

SpecShelf == ShelfInit /\ [][NextShelf]_vars

\* ------------------------------------------------------------ book form

\* what can be typed into a number field of the form: the min and max
\* attributes of the inputs do not stop typing, and the submit button
\* stands outside the <form>, so no constraint validation runs
FormValues == -1..MaxCopies

\* openModal(book) on a row of the session's book list: formData is the
\* row as the snapshot has it
openModal(c, b) ==
    /\ view[c] = "Books"
    /\ ~form[c].open
    /\ localBooks[c][b].exists
    /\ form' = [form EXCEPT ![c] =
                   [open |-> TRUE, edit |-> TRUE, bookId |-> b,
                    totalCopies |-> localBooks[c][b].totalCopies,
                    availableCopies |-> localBooks[c][b].availableCopies,
                    author |-> localBooks[c][b].author,
                    publisher |-> localBooks[c][b].publisher,
                    category |-> localBooks[c][b].category]]
    /\ UNCHANGED <<now, ticks, storeVars, localBooks, localTxns, pc, op,
                   result, budget, fineVars, view, localUsers, appTxns,
                   leaks, dashboard,
                   pass, report>>

\* openModal() for a new book: formData as resetForm leaves it
openModalNew(c) ==
    /\ view[c] = "Books"
    /\ ~form[c].open
    /\ form' = [form EXCEPT ![c] = [NoForm EXCEPT !.open = TRUE]]
    /\ UNCHANGED <<now, ticks, storeVars, localBooks, localTxns, pc, op,
                   result, budget, fineVars, view, localUsers, appTxns,
                   leaks, dashboard,
                   pass, report>>

\* handleChange on a number field: parseInt(value) || 0
handleChange(c, name, value) ==
    /\ form[c].open
    /\ form[c][name] # value
    /\ form' = [form EXCEPT ![c][name] = value]
    /\ UNCHANGED <<now, ticks, storeVars, localBooks, localTxns, pc, op,
                   result, budget, fineVars, view, localUsers, appTxns,
                   leaks, dashboard,
                   pass, report>>

\* a validity check of handleAddEdit that lets everything pass
AcceptAll(data) == FALSE

\* the validity check of handleAddEdit
CopiesInvalid(data) == data.availableCopies > data.totalCopies

\* the document handleAddEdit writes: the form's fields
FormData(c) ==
    [exists |-> TRUE, totalCopies |-> form[c].totalCopies,
     availableCopies |-> form[c].availableCopies,
     author |-> form[c].author, publisher |-> form[c].publisher,
     category |-> form[c].category]

\* ids addDoc can give to a new document: ids no document has had
FreshIds ==
    {b \in DOMAIN books :
        /\ ~books[b].exists
        /\ \A c \in Clients : ~localBooks[c][b].exists
        /\ \A i \in DOMAIN transactions : transactions[i].bookId # b}

\* handleAddEdit: the submit of the form.  An invalid form is logged and
\* stays open; otherwise setDoc(..., {merge: true}) in edit mode or
\* addDoc, then the modal closes and loadBooks() refreshes the list.
handleAddEdit(c) ==
    /\ form[c].open
    /\ budget > 0
    /\ budget' = budget - 1
    /\ LET kind == IF form[c].edit THEN "update" ELSE "create" IN
       IF CopiesInvalid(form[c])
       THEN /\ result' = [result EXCEPT ![c] =
                                Outcome(kind, form[c].bookId, "InvalidInput")]
            /\ UNCHANGED <<books, op, form, localBooks, leaks>>
       ELSE \E b \in IF form[c].edit THEN {form[c].bookId} ELSE FreshIds :
            /\ leaks' = Leak(c)
            /\ books' = [books EXCEPT ![b] = FormData(c)]
            /\ op' = Stale(b)
            /\ form' = [form EXCEPT ![c] = NoForm]
            /\ localBooks' = [localBooks EXCEPT ![c] = books']
            /\ result' = [result EXCEPT ![c] = Outcome(kind, b, "ok")]
    /\ UNCHANGED <<now, ticks, users, transactions, localTxns, pc,
                   fineVars, view, localUsers, appTxns, dashboard, pass,
                   report>>

\* the sessions whose librarian edits books
Editors == {"c1"}

\* Two sessions at the book list: b1 is in the collection, b2 is not yet.
FormInit ==
    /\ now = 0
    /\ ticks = 0
    /\ \E n \in 1..MaxCopies :
         books = [b \in Shelf |-> IF b = "b1" THEN BookDoc(n, 0) ELSE NoBook]
    /\ transactions = << >>
    /\ users = [u \in Users |-> UserDoc("Student")]
    /\ localBooks = [c \in Clients |-> books]
    /\ localTxns = [c \in Clients |-> transactions]
    /\ pc = [c \in Clients |-> "idle"]
    /\ op = [c \in Clients |-> NoOp]
    /\ result = [c \in Clients |-> NoResult]
    /\ budget = MaxOps
    /\ FineIdle
    /\ view = [c \in Clients |-> "Books"]
    /\ localUsers = [c \in Clients |-> users]
    /\ appTxns = [c \in Clients |-> transactions]
    /\ leaks = [c \in Clients |-> DroppedAtMount(view[c])]
    /\ dashboard = [c \in Clients |-> NoDashboard]
    /\ pass = [c \in Clients |-> NoPass]
    /\ form = [c \in Clients |-> NoForm]
    /\ report = [c \in Clients |-> NoReport]

NextForm ==
    \/ \E c \in Clients : loadBooks(c)
    \/ \E c \in Editors, b \in Shelf : openModal(c, b)
    \/ \E c \in Editors : openModalNew(c)
    \/ \E c \in Editors, name \in {"totalCopies", "availableCopies"},
          value \in FormValues : handleChange(c, name, value)
    \/ \E c \in Editors : handleAddEdit(c)

SpecForm == FormInit /\ [][NextForm]_vars

\* ------------------------------------------------------------ inventory and desk

\* The librarian of an Editors session works at the book list while the
\* other session runs the transaction desk; one copy of b1 may be on loan.
\* The clock stands still.
DeskInit ==
    /\ now = 0
    /\ ticks = 0
    /\ \E n \in 1..MaxCopies, k \in 0..1 :
         /\ books = [b \in Books |-> BookDoc(n, k)]
         /\ transactions =
              IF k = 0 THEN << >>
              ELSE << OpenTransaction("b1", "u1", 0, BORROW_DAYS * MsPerDay) >>
    /\ users = [u \in Users |-> UserDoc("Student")]
    /\ localBooks = [c \in Clients |-> books]
    /\ localTxns = [c \in Clients |-> transactions]
    /\ pc = [c \in Clients |-> "idle"]
    /\ op = [c \in Clients |-> NoOp]
    /\ result = [c \in Clients |-> NoResult]
    /\ budget = MaxOps
    /\ FineIdle
    /\ view = [c \in Clients |->
                 IF c \in Editors THEN "Books" ELSE "Transactions"]
    /\ localUsers = [c \in Clients |-> users]
    /\ appTxns = [c \in Clients |-> transactions]
    /\ leaks = [c \in Clients |-> DroppedAtMount(view[c])]
    /\ dashboard = [c \in Clients |-> NoDashboard]
    /\ pass = [c \in Clients |-> NoPass]
    /\ form = [c \in Clients |-> NoForm]
    /\ report = [c \in Clients |-> NoReport]

\* book edits interleaved with Borrow and Return
NextInventory ==
    \/ \E c \in Clients : loadBooks(c)
    \/ \E c \in Clients : loadLocalTransactions(c)
    \/ \E c \in Clients, u \in Users, b \in Books : handleBorrow(c, u, b)
    \/ \E c \in Clients, id \in 1..MaxTxns : handleReturn(c, id)
    \/ \E c \in Clients : TxnGet(c)
    \/ \E c \in Clients : TxnCommit(c)
    \/ \E c \in Editors, b \in Books : openModal(c, b)
    \/ \E c \in Editors, name \in {"totalCopies", "availableCopies"},
          value \in FormValues : handleChange(c, name, value)
    \/ \E c \in Editors : handleAddEdit(c)

SpecInventory == DeskInit /\ [][NextInventory]_vars

\* no handler of any session is running
Quiet == \A c \in Clients : pc[c] = "idle"

\* Operations one at a time: a handler starts only when no other is
\* running, so no Borrow, Return, UpdateBook or DeleteBook overlaps
\* another.
NextSequential ==
    \/ \E c \in Clients : loadBooks(c)
    \/ \E c \in Clients : loadLocalTransactions(c)
    \/ \E c \in Clients, u \in Users, b \in Books :
          Quiet /\ handleBorrow(c, u, b)
    \/ \E c \in Clients, id \in 1..MaxTxns : Quiet /\ handleReturn(c, id)
    \/ \E c \in Clients : TxnGet(c)
    \/ \E c \in Clients : TxnCommit(c)
    \/ \E c \in Editors, b \in Books : openModal(c, b)
    \/ \E c \in Editors, name \in {"totalCopies", "availableCopies"},
          value \in FormValues : handleChange(c, name, value)
    \/ \E c \in Editors : Quiet /\ handleAddEdit(c)
    \/ \E c \in Editors, b \in Books : Quiet /\ handleDelete(c, b)

SpecSequential == DeskInit /\ [][NextSequential]_vars

\* ------------------------------------------------------------ reports

MIN_LATE_COUNT_FOR_DEFAULTER == 2

\* books.find(b => b.id === txn.bookId) finds a document
FindBook(bks, id) == id \in DOMAIN bks /\ bks[id].exists

\* users.find(u => u.id === txn.userId) finds a document
FindUser(us, id) == id \in DOMAIN us

\* counts[key] = (counts[key] || 0) + 1 on an object, kept as the sequence
\* of its <<key, count>> entries in insertion order
AddCount(entries, key) ==
    IF \E i \in DOMAIN entries : entries[i][1] = key
    THEN [i \in DOMAIN entries |->
             IF entries[i][1] = key THEN <<key, entries[i][2] + 1>>
                                    ELSE entries[i]]
    ELSE Append(entries, <<key, 1>>)

\* the forEach of bookReports for one dimension
RECURSIVE CountBy(_, _, _)
CountBy(dim, bks, txns) ==
    IF txns = << >> THEN << >>
    ELSE LET counts == CountBy(dim, bks, SubSeq(txns, 1, Len(txns) - 1))
             txn == txns[Len(txns)]
         IN IF FindBook(bks, txn.bookId)
            THEN AddCount(counts, bks[txn.bookId][dim])
            ELSE counts

\* place entry e in a sequence sorted by descending count, behind the
\* entries that count as much (Array.prototype.sort is stable)
InsertDesc(sorted, e) ==
    LET k == Cardinality({i \in DOMAIN sorted : sorted[i][2] >= e[2]})
    IN SubSeq(sorted, 1, k) \o << e >> \o SubSeq(sorted, k + 1, Len(sorted))

\* a formatReport that forgets to sort
Unsorted(entries) == entries

\* formatReport: Object.entries(data).sort(([, a], [, b]) => b - a)
RECURSIVE formatReport(_)
formatReport(entries) ==
    IF entries = << >> THEN << >>
    ELSE InsertDesc(formatReport(SubSeq(entries, 1, Len(entries) - 1)),
                    entries[Len(entries)])

\* getMonthYear(date): the month of 2024 a representable instant falls in
getMonthYear(date) == IF date \div MsPerDay < 31 THEN 1 ELSE 2

\* monthlyUsageReport calls getMonthYear(txn.borrowDate) for every
\* transaction whose user is found; a borrowDate that is null has no
\* getFullYear and the call throws a TypeError
MonthlyThrows(us, txns) ==
    \E i \in DOMAIN txns :
        FindUser(us, txns[i].userId) /\ txns[i].borrowDate = Null

\* usage[monthYear][role] += 1 and usage[monthYear].Total += 1 on the
\* object of months, kept as its entries in insertion order
AddUsage(entries, month, role) ==
    LET Bump(u) == [u EXCEPT ![role] = @ + 1, !.Total = @ + 1]
        zero == [Student |-> 0, Staff |-> 0, Total |-> 0]
    IN IF \E i \in DOMAIN entries : entries[i][1] = month
       THEN [i \in DOMAIN entries |->
                IF entries[i][1] = month
                THEN <<month, Bump(entries[i][2])>> ELSE entries[i]]
       ELSE Append(entries, <<month, Bump(zero)>>)

\* the forEach of monthlyUsageReport
RECURSIVE Usage(_, _)
Usage(us, txns) ==
    IF txns = << >> THEN << >>
    ELSE LET usage == Usage(us, SubSeq(txns, 1, Len(txns) - 1))
             txn == txns[Len(txns)]
         IN IF FindUser(us, txn.userId)
            THEN AddUsage(usage, getMonthYear(txn.borrowDate),
                          us[txn.userId].role)
            ELSE usage

\* place a month's entry in a sequence sorted by descending month
InsertMonth(sorted, e) ==
    LET k == Cardinality({i \in DOMAIN sorted : sorted[i][1] >= e[1]})
    IN SubSeq(sorted, 1, k) \o << e >> \o SubSeq(sorted, k + 1, Len(sorted))

\* .sort(([a], [b]) => b.localeCompare(a))
RECURSIVE SortMonths(_)
SortMonths(entries) ==
    IF entries = << >> THEN << >>
    ELSE InsertMonth(SortMonths(SubSeq(entries, 1, Len(entries) - 1)),
                     entries[Len(entries)])

monthlyUsageReport(us, txns) == SortMonths(Usage(us, txns))

\* userLateCounts[id]: the transactions of the user with fineAmount > 0
userLateCounts(txns, id) ==
    Cardinality({i \in DOMAIN txns :
                    txns[i].userId = id /\ txns[i].fineAmount > 0})

\* the ids of defaultersReport
defaulterIds(us, txns) ==
    {id \in DOMAIN us :
        userLateCounts(txns, id) >= MIN_LATE_COUNT_FOR_DEFAULTER}

\* the users collection in the order of its document ids
UserIds == << "u1", "u2" >>

\* defaultersReport: the defaulters with their lateCount, sorted by
\* descending lateCount
defaultersReport(us, txns) ==
    formatReport(SelectSeq([i \in DOMAIN UserIds |->
                               <<UserIds[i], userLateCounts(txns, UserIds[i])>>],
                           LAMBDA e : e[1] \in defaulterIds(us, txns)))

\* Reports renders from the session's snapshots; an exception in one of
\* its computations leaves nothing rendered
renderReports(c) ==
    /\ view[c] = "Reports"
    /\ report[c].status = "none"
    /\ report' = [report EXCEPT ![c] =
          [status |-> IF MonthlyThrows(localUsers[c], appTxns[c])
                      THEN "error" ELSE "ok",
           author |-> formatReport(CountBy("author", localBooks[c], appTxns[c])),
           publisher |-> formatReport(CountBy("publisher", localBooks[c],
                                              appTxns[c])),
           category |-> formatReport(CountBy("category", localBooks[c],
                                             appTxns[c])),
           monthly |-> IF MonthlyThrows(localUsers[c], appTxns[c])
                       THEN << >>
                       ELSE monthlyUsageReport(localUsers[c], appTxns[c]),
           defaulters |-> defaultersReport(localUsers[c], appTxns[c])]]
    /\ UNCHANGED <<now, ticks, storeVars, localBooks, localTxns, pc, op,
                   result, budget, fineVars, view, localUsers, appTxns,
                   leaks, dashboard,
                   pass, form>>

\* Reports on its own: the collections are drawn, every session has their
\* snapshot and shows Reports.
BookOf(a, p, g) ==
    [BookDoc(MaxLog, 0) EXCEPT !.author = a, !.publisher = p, !.category = g]

\* what the shelf can hold: each book with one of two descriptions, or
\* deleted
ShelfChoices ==
    [b1 : {BookOf("a1", "p1", "Fiction"), BookOf("a2", "p1", "Science"),
           NoBook},
     b2 : {BookOf("a1", "p2", "Fiction"), BookOf("a2", "p2", "Fiction"),
           NoBook}]

\* a transaction returned a day late
FinedTransaction(b, u) ==
    [OpenTransaction(b, u, 0, BORROW_DAYS * MsPerDay)
        EXCEPT !.returnDate = (BORROW_DAYS + 1) * MsPerDay,
               !.fineAmount = FINE_RATE_PER_DAY]

\* The transaction documents a reported collection is made of: open and
\* fined ones, of users that exist and of u0 whose document is gone, and
\* one whose borrowDate is null.
LogRecords ==
    {OpenTransaction(b, u, 0, BORROW_DAYS * MsPerDay) :
        b \in Shelf, u \in {"u1", "u0"}}
    \cup {FinedTransaction(b, u) : b \in Shelf, u \in {"u1", "u2"}}
    \cup {OpenTransaction(b, "u1", Null, BORROW_DAYS * MsPerDay) : b \in Shelf}

Logs == UNION {[1..n -> LogRecords] : n \in 0..MaxLog}

OpenIn(log, b) ==
    Cardinality({i \in DOMAIN log : log[i].bookId = b /\ Open(log[i])})

RenderInit ==
    /\ now = (BORROW_DAYS + 1) * MsPerDay
    /\ ticks = 0
    /\ transactions \in Logs
    /\ \E shelf \in ShelfChoices :
         books = [b \in Shelf |->
                    IF shelf[b].exists
                    THEN [shelf[b] EXCEPT !.availableCopies =
                                              MaxLog - OpenIn(transactions, b)]
                    ELSE NoBook]
    /\ users = [u \in {"u1", "u2"} |->
                  UserDoc(IF u = "u1" THEN "Student" ELSE "Staff")]
    /\ localBooks = [c \in Clients |-> books]
    /\ localTxns = [c \in Clients |-> << >>]
    /\ pc = [c \in Clients |-> "idle"]
    /\ op = [c \in Clients |-> NoOp]
    /\ result = [c \in Clients |-> NoResult]
    /\ budget = 0
    /\ FineIdle
    /\ view = [c \in Clients |-> "Reports"]
    /\ localUsers = [c \in Clients |-> users]
    /\ appTxns = [c \in Clients |-> transactions]
    /\ leaks = [c \in Clients |-> DroppedAtMount(view[c])]
    /\ dashboard = [c \in Clients |-> NoDashboard]
    /\ pass = [c \in Clients |-> NoPass]
    /\ form = [c \in Clients |-> NoForm]
    /\ report = [c \in Clients |-> NoReport]

NextRender == \E c \in Clients : renderReports(c)

SpecRender == RenderInit /\ [][NextRender]_vars

\* ------------------------------------------------------------ dashboard

\* books.reduce((sum, book) => sum + book[field], 0) over the documents
\* of the session's book list
RECURSIVE SumCopies(_, _, _)
SumCopies(bks, ids, field) ==
    IF ids = {} THEN 0
    ELSE LET b == CHOOSE x \in ids : TRUE
         IN (IF bks[b].exists THEN bks[b][field] ELSE 0)
            + SumCopies(bks, ids \ {b}, field)

\* transactions.reduce((saum, t) => sum + (t.fineAmount || 0), 0): the
\* callback names its accumulator saum and reads sum, which is declared
\* nowhere in its scope, so its first call throws a ReferenceError
FinesThrow(txns) == txns # << >>

\* what the reduce returns when its callback is never called: the initial
\* value
totalFines(txns) == 0

\* Dashboard renders from the session's snapshots; an exception in its
\* body leaves nothing rendered
renderDashboard(c) ==
    /\ view[c] = "Dashboard"
    /\ dashboard[c].status = "none"
    /\ LET totalBooks == SumCopies(localBooks[c], DOMAIN localBooks[c],
                                   "totalCopies")
           availableBooks == SumCopies(localBooks[c], DOMAIN localBooks[c],
                                       "availableCopies")
       IN dashboard' = [dashboard EXCEPT ![c] =
              IF FinesThrow(appTxns[c])
              THEN [NoDashboard EXCEPT !.status = "error"]
              ELSE [status |-> "ok",
                    totalFines |-> totalFines(appTxns[c]),
                    borrowedBooks |-> totalBooks - availableBooks]]
    /\ UNCHANGED <<now, ticks, storeVars, localBooks, localTxns, pc, op,
                   result, budget, fineVars, view, localUsers, appTxns,
                   pass, form, report, leaks>>

\* Dashboard on its own: the collections are drawn, every session has
\* their snapshot and shows Dashboard, the view the app starts on.
DashboardInit ==
    /\ now = (BORROW_DAYS + 1) * MsPerDay
    /\ ticks = 0
    /\ transactions \in Logs
    /\ \E shelf \in ShelfChoices :
         books = [b \in Shelf |->
                    IF shelf[b].exists
                    THEN [shelf[b] EXCEPT !.availableCopies =
                                              MaxLog - OpenIn(transactions, b)]
                    ELSE NoBook]
    /\ users = [u \in {"u1", "u2"} |->
                  UserDoc(IF u = "u1" THEN "Student" ELSE "Staff")]
    /\ localBooks = [c \in Clients |-> books]
    /\ localTxns = [c \in Clients |-> << >>]
    /\ pc = [c \in Clients |-> "idle"]
    /\ op = [c \in Clients |-> NoOp]
    /\ result = [c \in Clients |-> NoResult]
    /\ budget = 0
    /\ FineIdle
    /\ view = [c \in Clients |-> "Dashboard"]
    /\ localUsers = [c \in Clients |-> users]
    /\ appTxns = [c \in Clients |-> transactions]
    /\ leaks = [c \in Clients |-> DroppedAtMount(view[c])]
    /\ dashboard = [c \in Clients |-> NoDashboard]
    /\ pass = [c \in Clients |-> NoPass]
    /\ form = [c \in Clients |-> NoForm]
    /\ report = [c \in Clients |-> NoReport]

NextDashboard == \E c \in Clients : renderDashboard(c)

SpecDashboard == DashboardInit /\ [][NextDashboard]_vars

\* ------------------------------------------------------------ defaulter status

\* the effect of Reports is due and nothing keeps it from running
EffectPending(c) ==
    view[c] = "Reports" /\ pass[c].due /\ pass[c].todo = << >>

\* the user clicks a navigation button: setView(v).  The component shown
\* is unmounted and its state is gone; Reports runs its effect on mount.
\* The effect of the last render runs before the next click is handled.
setView(c, v) ==
    /\ view[c] # v
    /\ ~EffectPending(c)
    /\ view' = [view EXCEPT ![c] = v]
    /\ localTxns' = [localTxns EXCEPT ![c] = << >>]
    /\ pass' = [pass EXCEPT ![c].due = (v = "Reports")]
    /\ UNCHANGED <<now, ticks, storeVars, localBooks, pc, op, result,
                   budget, fineVars, localUsers, appTxns, leaks, dashboard,
                   form, report>>

\* the users listener of App delivers the current collection
loadUsers(c) ==
    /\ localUsers[c] # users
    /\ localUsers' = [localUsers EXCEPT ![c] = users]
    /\ pass' = [pass EXCEPT ![c].due = @ \/ view[c] = "Reports"]
    /\ UNCHANGED <<now, ticks, storeVars, localBooks, localTxns, pc, op,
                   result, budget, fineVars, view, appTxns, leaks, dashboard,
                   form, report>>

\* the transactions listener of App delivers the current collection
loadTransactions(c) ==
    /\ appTxns[c] # transactions
    /\ appTxns' = [appTxns EXCEPT ![c] = transactions]
    /\ pass' = [pass EXCEPT ![c].due = @ \/ view[c] = "Reports"]
    /\ UNCHANGED <<now, ticks, storeVars, localBooks, localTxns, pc, op,
                   result, budget, fineVars, view, localUsers, form, report,
                   leaks, dashboard>>

\* isCurrentlyDefaulter as it would be if one late return were enough
AnyLateReturn(us, txns, id) == userLateCounts(txns, id) >= 1

\* isCurrentlyDefaulter = defaulterIds.has(user.id)
isCurrentlyDefaulter(us, txns, id) == id \in defaulterIds(us, txns)

\* an updateDefaulterStatus that writes every user
EveryUser(us, txns) == UserIds

\* the users updateDefaulterStatus writes: those whose isDefaulter in the
\* users it was given differs from isCurrentlyDefaulter
ToWrite(us, txns) ==
    SelectSeq(UserIds,
              LAMBDA id : /\ id \in DOMAIN us
                          /\ us[id].isDefaulter
                                # isCurrentlyDefaulter(us, txns, id))

\* The effect of Reports, after a render in which users or the
\* transactions changed: updateDefaulterStatus is started unless no user
\* is a defaulter in the report or in the snapshot.  One pass of a
\* session runs at a time.
reportsEffect(c) ==
    /\ EffectPending(c)
    /\ IF \/ defaulterIds(localUsers[c], appTxns[c]) # {}
          \/ \E id \in DOMAIN localUsers[c] : localUsers[c][id].isDefaulter
       THEN pass' = [pass EXCEPT ![c] =
                       [due |-> FALSE,
                        todo |-> ToWrite(localUsers[c], appTxns[c]),
                        users |-> localUsers[c],
                        log |-> appTxns[c],
                        clean |-> localUsers[c] = users,
                        wrote |-> {},
                        ended |-> ToWrite(localUsers[c], appTxns[c]) = << >>]]
       ELSE pass' = [pass EXCEPT ![c] = NoPass]
    /\ UNCHANGED <<now, ticks, storeVars, localBooks, localTxns, pc, op,
                   result, budget, fineVars, view, localUsers, appTxns,
                   leaks, dashboard,
                   form, report>>

\* One iteration of updateDefaulterStatus that writes: updateDoc of the
\* user's isDefaulter, which the session's own listener shows at once.
updateDefaulterStatus(c) ==
    /\ pass[c].todo # << >>
    /\ LET id == Head(pass[c].todo)
           flag == isCurrentlyDefaulter(pass[c].users, pass[c].log, id)
       IN /\ users' = [users EXCEPT ![id].isDefaulter = flag]
          /\ localUsers' = [localUsers EXCEPT ![c][id].isDefaulter = flag]
          /\ pass' = [d \in Clients |->
                IF d = c
                THEN [pass[c] EXCEPT !.todo = Tail(@),
                                     !.wrote = @ \cup {id},
                                     !.ended = (Tail(pass[c].todo) = << >>),
                                     !.due = @ \/ view[c] = "Reports"]
                ELSE [pass[d] EXCEPT !.clean = FALSE]]
    /\ UNCHANGED <<now, ticks, books, transactions, localBooks, localTxns,
                   pc, op, result, budget, fineVars, view, appTxns, leaks,
                   dashboard, form,
                   report>>

\* The collections when the sessions start: up to MaxTxns transactions on
\* b1, fined ones of u1 and u2 and an overdue open one of u1.  u2 may be
\* stored as a defaulter, from an earlier pass (also with fewer fined
\* transactions than the flag stands for: a record was corrected since).
ClassifierLogs ==
    UNION {[1..n -> {FinedTransaction("b1", "u1"), FinedTransaction("b1", "u2"),
                     OpenTransaction("b1", "u1", 0, BORROW_DAYS * MsPerDay)}] :
              n \in 1..MaxTxns}

ClassifierInit ==
    /\ now = (BORROW_DAYS + 1) * MsPerDay
    /\ ticks = 0
    /\ transactions \in ClassifierLogs
    /\ books = [b \in Books |->
                  [BookDoc(MaxTxns, 0) EXCEPT !.availableCopies =
                                                 MaxTxns - OpenIn(transactions, b)]]
    /\ \E flag \in BOOLEAN :
         users = [u \in {"u1", "u2"} |->
                    IF u = "u1" THEN UserDoc("Student")
                    ELSE [UserDoc("Staff") EXCEPT !.isDefaulter = flag]]
    /\ localBooks = [c \in Clients |-> books]
    /\ localTxns = [c \in Clients |-> transactions]
    /\ pc = [c \in Clients |-> "idle"]
    /\ op = [c \in Clients |-> NoOp]
    /\ result = [c \in Clients |-> NoResult]
    /\ budget = 1
    /\ FineIdle
    /\ UiIdle

NextClassifier ==
    \/ \E c \in Clients, v \in {"Transactions", "Reports"} : setView(c, v)
    \/ \E c \in Clients : loadLocalTransactions(c)
    \/ \E c \in Clients : loadUsers(c)
    \/ \E c \in Clients : loadTransactions(c)
    \/ \E c \in Clients, id \in 1..MaxTxns : handleReturn(c, id)
    \/ \E c \in Clients : TxnGet(c)
    \/ \E c \in Clients : TxnCommit(c)
    \/ \E c \in Clients : reportsEffect(c)
    \/ \E c \in Clients : updateDefaulterStatus(c)

SpecClassifier == ClassifierInit /\ [][NextClassifier]_vars

\* The same with what the store, its listeners and the running handlers
\* do by themselves happening eventually; what the users do (navigating,
\* pressing Return) may or may not happen.
FairClassifier ==
    /\ SpecClassifier
    /\ \A c \in Clients :
         /\ WF_vars(loadLocalTransactions(c))
         /\ WF_vars(loadUsers(c))
         /\ WF_vars(loadTransactions(c))
         /\ WF_vars(TxnGet(c))
         /\ WF_vars(TxnCommit(c))
         /\ WF_vars(reportsEffect(c))
         /\ WF_vars(updateDefaulterStatus(c))

\* ------------------------------------------------------------ fine calculator alone

Jan10 == 9 * MsPerDay
Jan11 == 10 * MsPerDay
Jan20 == 19 * MsPerDay

FineDueDates == {Jan10, Jan10 + 12 * 60 * MsPerMinute, Jan11, Null}

LateOffsets ==
    {0, 1, MsPerMinute, 60 * MsPerMinute, MsPerDay - MsPerMinute,
     MsPerDay - 1, MsPerDay, MsPerDay + 1, 2 * MsPerDay, 10 * MsPerDay,
     10 * MsPerDay + 1}

FineReturnDates ==
    {Null} \cup {Jan10 + o : o \in LateOffsets}
           \cup {Jan10 - o : o \in LateOffsets}
           \cup {Jan11 + o : o \in LateOffsets}

FineInit ==
    /\ MachineInit
    /\ budget = 0
    /\ fDue \in FineDueDates
    /\ fRet \in FineReturnDates
    /\ fOut = 0
    /\ fpc = "ready"

\* one call of calculateFine(fDue, fRet)
ComputeFine ==
    /\ fpc = "ready"
    /\ fOut' = calculateFine(fDue, fRet)
    /\ fpc' = "done"
    /\ UNCHANGED <<now, ticks, storeVars, localBooks, localTxns, pc, op,
                   result, budget, fDue, fRet, uiVars>>

FineNext == ComputeFine

SpecFine == FineInit /\ [][FineNext]_vars

\* ------------------------------------------------------------ claims

BorrowEnded(b, how) ==
    {c \in Clients : /\ result[c].kind = "borrow"
                     /\ result[c].bookId = b
                     /\ result[c].outcome = how}

\* every session has called Borrow(b) once, nothing else was called, and
\* all the calls have ended
AllBorrowedOnce(b) ==
    /\ budget = MaxOps - Cardinality(Clients)
    /\ \A c \in Clients : /\ pc[c] = "idle"
                          /\ result[c].kind = "borrow"
                          /\ result[c].bookId = b

\* C1: no oversell.  A book with n copies, all available, and n+1 Borrow
\* calls (one per session, in any interleaving): exactly n of them
\* succeed, at least one fails as Unavailable, and availableCopies ends 0.
C1_NoOversell ==
    \A b \in Books :
        ( /\ AllBorrowedOnce(b)
          /\ books[b].totalCopies = Cardinality(Clients) - 1
          /\ Len(transactions) = Cardinality(BorrowEnded(b, "ok")) )
        => /\ Cardinality(BorrowEnded(b, "ok")) = books[b].totalCopies
           /\ Cardinality(BorrowEnded(b, "Unavailable")) >= 1
           /\ books[b].availableCopies = 0

\* C2: I1, every book has 0 <= availableCopies <= totalCopies.
C2_I1 ==
    \A b \in Books : books[b].exists =>
        /\ 0 <= books[b].availableCopies
        /\ books[b].availableCopies <= books[b].totalCopies

\* C3: I2, for every book totalCopies - availableCopies is the number of
\* open transactions that reference it.
C3_I2 ==
    \A b \in Books : books[b].exists =>
        books[b].totalCopies - books[b].availableCopies = OpenCount(b)

\* C4: idempotent return.  A Return that completes on a transaction that
\* is already closed in the store changes nothing and fails with
\* AlreadyReturned, so availableCopies is incremented once per transaction.
C4_IdempotentReturn ==
    [][\A c \in Clients :
          ( /\ pc[c] = "commit"
            /\ op[c].kind = "return"
            /\ ~Open(transactions[op[c].txnId])
            /\ pc'[c] = "idle" )
          => /\ UNCHANGED storeVars
             /\ result'[c].outcome = "AlreadyReturned"]_vars

\* C5: I3, a closed transaction keeps the returnDate and the fineAmount
\* the first Return wrote, in every later state.
C5_ClosedImmutable ==
    [][\A i \in DOMAIN transactions :
          ~Open(transactions[i]) =>
              /\ transactions'[i].returnDate = transactions[i].returnDate
              /\ transactions'[i].fineAmount = transactions[i].fineAmount]_vars

\* C6: a Borrow whose read of the book inside the transaction finds
\* availableCopies < 1 fails with Unavailable, creates no transaction and
\* leaves the counters alone.
C6_UnavailableNoEffect ==
    [][\A c \in Clients :
          ( /\ pc[c] = "commit"
            /\ op[c].kind = "borrow"
            /\ op[c].fresh
            /\ op[c].readAvail < 1
            /\ pc'[c] # pc[c] )
          => /\ UNCHANGED storeVars
             /\ result'[c].outcome = "Unavailable"]_vars

\* a handler ends in failure in this step: an early return of handleBorrow
\* or handleReturn, or a rejected runTransaction
HandlerFails ==
    \/ /\ budget' = budget - 1
       /\ pc' = pc
    \/ \E c \in Clients : /\ pc[c] # "idle"
                          /\ pc'[c] = "idle"
                          /\ result'[c].outcome \in Failures

C8_FineValue ==
    (fpc = "done" /\ fDue # Null /\ fRet # Null) =>
        /\ fRet <= fDue => fOut = 0
        /\ fRet > fDue =>
              \E k \in 1..21 : /\ (k - 1) * MsPerDay < fRet - fDue
                              /\ fRet - fDue <= k * MsPerDay
                              /\ fOut = k * FINE_RATE_PER_DAY
        /\ (fDue = Jan10 /\ fRet = Jan10) => fOut = 0
        /\ (fDue = Jan10 /\ fRet = Jan11) => fOut = 50
        /\ (fDue = Jan10 /\ fRet = Jan20) => fOut = 500

\* the fine of a return ten days and a millisecond late has been computed
C8_Witness ==
    /\ fpc = "done"
    /\ fDue = Jan10
    /\ fRet = Jan20 + 1
    /\ fOut = 550

Jan10_0001 == Jan10 + MsPerMinute
Jan10_2359 == Jan10 + MsPerDay - MsPerMinute

\* C9 as stated: due 2024-01-10 00:00, the fine is 0 for a return at
\* 2024-01-10 23:59 and 0.50 for a return at 2024-01-10 00:01.
C9_AsStated ==
    (fpc = "done" /\ fDue = Jan10) =>
        /\ fRet = Jan10_2359 => fOut = 0
        /\ fRet = Jan10_0001 => fOut = 50

\* C9 amended: due 2024-01-10 00:00, the fine is 0.50 for a return at
\* 2024-01-10 23:59 and 0.50 for a return at 2024-01-10 00:01; both are
\* after the due instant and within the first late day.
C9_SameDayFine ==
    (fpc = "done" /\ fDue = Jan10) =>
        /\ fRet = Jan10_2359 => fOut = 50
        /\ fRet = Jan10_0001 => fOut = 50

C9_Witness == fpc = "done" /\ fDue = Jan10 /\ fRet = Jan10_2359

\* C10: I4, a transaction with fineAmount > 0 has a returnDate later than
\* its dueDate, and the fine of a closed transaction is the fine of its
\* dueDate and its stored returnDate.
C10_I4 ==
    \A i \in DOMAIN transactions :
        LET t == transactions[i] IN
        /\ t.fineAmount > 0 => (t.returnDate # Null /\ t.returnDate > t.dueDate)
        /\ ~Open(t) => t.fineAmount = calculateFine(t.dueDate, t.returnDate)

\* a handler of session c ends in this step
Ends(c) == pc[c] # "idle" /\ pc'[c] = "idle"

C15_BorrowEffect ==
    [][\A c \in Clients :
          ( /\ op[c].kind = "borrow"
            /\ Ends(c)
            /\ result'[c].outcome = "ok" )
          => LET b == op[c].bookId
                 new == transactions'[Len(transactions')]
             IN /\ books'[b] = [books[b] EXCEPT !.availableCopies = @ - 1]
                /\ \A o \in DOMAIN books \ {b} : books'[o] = books[o]
                /\ Len(transactions') = Len(transactions) + 1
                /\ \A i \in DOMAIN transactions :
                       transactions'[i] = transactions[i]
                /\ new.bookId = b
                /\ new.userId = op[c].userId
                /\ new.returnDate = Null
                /\ new.fineAmount = 0
                /\ users' = users]_vars

\* a Borrow of b2 has succeeded while a copy of b1 is on loan: b2 has no
\* copy left, and the newest transaction is the open loan of b2
C15_Witness ==
    \E c \in Clients :
        /\ result[c] = Outcome("borrow", "b2", "ok")
        /\ books["b2"].availableCopies = 0
        /\ Len(transactions) = 2
        /\ transactions[1].bookId = "b1"
        /\ transactions[2].bookId = "b2"
        /\ Open(transactions[2])

\* C16: every transaction's dueDate is its borrowDate plus exactly
\* BORROW_DAYS days, whatever the clock does and however long the Borrow
\* takes to commit.
C16_DueDate ==
    \A i \in DOMAIN transactions :
        transactions[i].dueDate =
            transactions[i].borrowDate + BORROW_DAYS * MsPerDay

\* C13: a CreateBook or UpdateBook whose submitted availableCopies exceeds
\* totalCopies is rejected as InvalidInput and the books collection is
\* unchanged.
C13_InvalidRejected ==
    [][\A c \in Clients :
          (form[c].availableCopies > form[c].totalCopies /\ handleAddEdit(c))
          => /\ books' = books
             /\ result'[c].outcome = "InvalidInput"]_vars

\* session c has submitted an edit of b1 with more available copies than
\* copies; the form is still open and b1 is as it was
C13_Witness ==
    \E c \in Clients :
        /\ result[c] = Outcome("update", "b1", "InvalidInput")
        /\ form[c].open
        /\ form[c].availableCopies > form[c].totalCopies
        /\ books["b1"].availableCopies = books["b1"].totalCopies
        /\ budget = MaxOps - 1

\* C14: report computation never fails because of a dangling or malformed
\* record.  Whatever the transactions collection holds (a transaction
\* whose book or user is gone, or whose borrowDate is null), Reports
\* renders all three reports.
C14_ReportsProduced ==
    \A c \in Clients : report[c].status # "error"

\* the transactions a by-dimension report of session c counts
Counted(c) ==
    {i \in DOMAIN appTxns[c] : FindBook(localBooks[c], appTxns[c][i].bookId)}

RECURSIVE SumCounts(_)
SumCounts(entries) ==
    IF entries = << >> THEN 0
    ELSE entries[1][2] + SumCounts(Tail(entries))

\* C20: for each of author, publisher and category the by-dimension
\* report lists every value some counted transaction's book carries, once,
\* with the number of transactions whose book exists and carries it, in
\* descending order of count; a transaction whose book is gone is in no
\* entry, and the counts sum to the number of transactions with a book.
C20_ByDimension ==
    \A c \in Clients : report[c].status # "none" =>
        \A dim \in {"author", "publisher", "category"} :
            LET r == report[c][dim]
                Carries(v) ==
                    {i \in Counted(c) :
                        localBooks[c][appTxns[c][i].bookId][dim] = v}
            IN /\ \A i, j \in DOMAIN r : i < j => /\ r[i][2] >= r[j][2]
                                                   /\ r[i][1] # r[j][1]
               /\ \A i \in DOMAIN r : /\ r[i][2] = Cardinality(Carries(r[i][1]))
                                       /\ r[i][2] > 0
               /\ \A k \in Counted(c) :
                     \E i \in DOMAIN r :
                        r[i][1] = localBooks[c][appTxns[c][k].bookId][dim]
               /\ SumCounts(r) = Cardinality(Counted(c))

\* a report over three transactions, the first on b1 by author a2 and
\* the other two on b2 by a1: a2 was counted first and a1 is listed first
C20_Witness ==
    \E c \in Clients :
        /\ report[c].status = "ok"
        /\ report[c].author = << <<"a1", 2>>, <<"a2", 1>> >>
        /\ appTxns[c][1].bookId = "b1"
        /\ localBooks[c]["b1"].author = "a2"
        /\ Len(appTxns[c]) = 3

\* an updateDefaulterStatus of session c completes in this step
PassCompletes(c) == ~pass[c].ended /\ pass'[c].ended

\* the closed transactions of user id with fineAmount > 0
ClosedLate(txns, id) ==
    Cardinality({i \in DOMAIN txns : /\ txns[i].userId = id
                                      /\ ~Open(txns[i])
                                      /\ txns[i].fineAmount > 0})

C18_AsStated ==
    [][\A c \in Clients :
          updateDefaulterStatus(c) =>
              \A id \in DOMAIN users :
                  /\ users'[id].role = users[id].role
                  /\ id = Head(pass[c].todo) =>
                        users'[id].isDefaulter # users[id].isDefaulter
                  /\ id # Head(pass[c].todo) => users'[id] = users[id]]_vars

\* C18 amended: a pass writes only the users whose isDefaulter in the
\* session's snapshot of the users differs from the computed value; the
\* write sets isDefaulter and nothing else, of that user only; and a pass
\* over a snapshot that is already consistent performs zero writes.
C18_SnapshotDiff ==
    [][\A c \in Clients :
          /\ updateDefaulterStatus(c) =>
                LET id == Head(pass[c].todo)
                    flag == ClosedLate(pass[c].log, id) >= 2
                IN /\ pass[c].users[id].isDefaulter # flag
                   /\ users' = [users EXCEPT ![id].isDefaulter = flag]
          /\ ( /\ PassCompletes(c)
               /\ \A id \in DOMAIN pass'[c].users :
                     pass'[c].users[id].isDefaulter
                         <=> ClosedLate(pass'[c].log, id) >= 2 )
             => /\ pass'[c].wrote = {}
                /\ users' = users]_vars

\* a pass over a snapshot in which u2 is rightly a defaulter and u1
\* rightly not has completed without a write
C18_Witness ==
    \E c \in Clients :
        /\ pass[c].ended
        /\ pass[c].wrote = {}
        /\ pass[c].users["u2"].isDefaulter
        /\ ClosedLate(pass[c].log, "u2") = 2
        /\ users = pass[c].users

\* a Return has committed a fine
FineCommitted ==
    \E c \in Clients :
        /\ result[c] = Outcome("return", "b1", "ok")
        /\ \E i \in DOMAIN transactions :
              /\ transactions[i].returnDate = now
              /\ transactions[i].fineAmount > 0

\* every user's stored isDefaulter is the value computed from the log
FlagsComputed ==
    \A id \in DOMAIN users :
        users[id].isDefaulter <=> ClosedLate(transactions, id) >= 2

\* C17: after a Return that commits a fine, every user's stored
\* isDefaulter eventually equals the value computed from the log,
\* whichever view the sessions show.
C17_Recomputed == FineCommitted ~> FlagsComputed

\* a step of Reports in session c: it is shown, its effect runs, or its
\* updateDefaulterStatus goes on
ReportsStep(c) ==
    \/ setView(c, "Reports")
    \/ reportsEffect(c)
    \/ updateDefaulterStatus(c)

\* C19: computing and displaying the reports is free of side effects:
\* no step of Reports changes the books, users or transactions.
C19_SideEffectFree ==
    [][\A c \in Clients : ReportsStep(c) => UNCHANGED storeVars]_vars

\* C21: every accepted CreateBook or UpdateBook leaves the stored book
\* with totalCopies >= 1 and 0 <= availableCopies <= totalCopies.
C21_AcceptedValid ==
    [][\A c \in Clients :
          (handleAddEdit(c) /\ result'[c].outcome = "ok")
          => LET stored == books'[result'[c].bookId]
             IN /\ stored.totalCopies >= 1
                /\ 0 <= stored.availableCopies
                /\ stored.availableCopies <= stored.totalCopies]_vars

\* C22: an UpdateBook keeps I2 when it is interleaved with Borrow and
\* Return.  An edit in which the librarian changed no counter (the form
\* shows the counters of the session's book list), submitted while
\* totalCopies - availableCopies equals the number of open transactions
\* of the book, leaves them equal: it does not overwrite the counter
\* change of a Borrow or Return committed after the form was loaded.
C22_EditKeepsI2 ==
    [][\A c \in Clients :
          LET b == form[c].bookId IN
          ( /\ handleAddEdit(c)
            /\ form[c].edit
            /\ form[c].totalCopies = localBooks[c][b].totalCopies
            /\ form[c].availableCopies = localBooks[c][b].availableCopies
            /\ books[b].exists
            /\ books[b].totalCopies - books[b].availableCopies = OpenCount(b) )
          => books'[b].totalCopies - books'[b].availableCopies
                 = OpenCount(b)]_vars

\* C23: every open transaction stays returnable.  When operations run one
\* at a time, a Return of a transaction that is open in the store
\* succeeds and closes it, whatever Borrow, Return, UpdateBook and
\* DeleteBook operations came before.
C23_Returnable ==
    [][\A c \in Clients :
          ( /\ op[c].kind = "return"
            /\ Ends(c)
            /\ Open(transactions[op[c].txnId]) )
          => /\ result'[c].outcome = "ok"
             /\ ~Open(transactions'[op[c].txnId])]_vars

\* the listeners of App's initial effect: books, users, transactions
AppListeners == 3

\* the listeners the mounted components of session c hold and close when
\* they unmount
MountedListeners(c) ==
    AppListeners + (IF view[c] = "Transactions" THEN 1 ELSE 0)

\* the live listeners of session c
LiveListeners(c) == MountedListeners(c) + leaks[c]

\* C24: the number of live subscriptions of a session does not depend on
\* how many snapshots were delivered or how many books were written, and
\* a subscription is closed when the component that opened it unmounts.
\* While a session stays on its view no step changes the number of its
\* live listeners, and when it leaves the transaction desk only App's
\* listeners remain.
C24_SubscriptionsBounded ==
    [][\A c \in Clients :
          /\ view'[c] = view[c] => LiveListeners(c)' = LiveListeners(c)
          /\ (view[c] = "Transactions" /\ view'[c] # "Transactions")
                => LiveListeners(c)' = AppListeners]_vars

\* the sum of fineAmount over a list of transactions
RECURSIVE SumFines(_)
SumFines(txns) ==
    IF txns = << >> THEN 0
    ELSE Head(txns).fineAmount + SumFines(Tail(txns))

\* the copies on loan according to the counters of a book list
RECURSIVE SumBorrowed(_, _)
SumBorrowed(bks, ids) ==
    IF ids = {} THEN 0
    ELSE LET b == CHOOSE x \in ids : TRUE
         IN (IF bks[b].exists
             THEN bks[b].totalCopies - bks[b].availableCopies ELSE 0)
            + SumBorrowed(bks, ids \ {b})

\* C25: the dashboard is computed without error for every store state, a
\* non-empty transactions collection included; its total-fines figure is
\* the sum of fineAmount over all transactions and its borrowed figure is
\* the sum over the books of totalCopies - availableCopies.
C25_DashboardComputed ==
    \A c \in Clients :
        dashboard[c].status # "none"
        => /\ dashboard[c].status = "ok"
           /\ dashboard[c].totalFines = SumFines(appTxns[c])
           /\ dashboard[c].borrowedBooks
                  = SumBorrowed(localBooks[c], DOMAIN localBooks[c])
====
